---- MODULE Spec2Model ----
(***************************************************************************)
(* The chat widget of the trading assistant (ChatInterface) as a state     *)
(* machine: the component's React state, the values the handlers of the    *)
(* last render closed over, the clock, and the turns handleSendMessage     *)
(* started.  Text is a sequence of one-character strings, so that trim and *)
(* the session-switch regular expression are computed character by         *)
(* character, as the JavaScript engine computes them.                      *)
(***************************************************************************)
EXTENDS Integers, Sequences, FiniteSets

(***************************************************************************)
(* Bounds of the model.                                                    *)
(***************************************************************************)
MaxTurns == 2
MaxClock == 1

(***************************************************************************)
(* Text.                                                                   *)
(***************************************************************************)
CaseMap ==
  [A |-> "a", B |-> "b", C |-> "c", D |-> "d", E |-> "e", F |-> "f", G |-> "g",
   H |-> "h", I |-> "i", J |-> "j", K |-> "k", L |-> "l", M |-> "m", N |-> "n",
   O |-> "o", P |-> "p", Q |-> "q", R |-> "r", S |-> "s", T |-> "t", U |-> "u",
   V |-> "v", W |-> "w", X |-> "x", Y |-> "y", Z |-> "z"]

\* the /i flag: two characters match when they agree up to letter case
Lower(c) == IF c \in DOMAIN CaseMap THEN CaseMap[c] ELSE c

\* \s of the regular expression, and the characters String.prototype.trim removes
IsSpace(c) == c \in {" ", "\t", "\n", "\r"}

\* the characters "." does not match
IsLineTerminator(c) == c \in {"\n", "\r"}

SetMax(S) == CHOOSE x \in S : \A y \in S : y <= x

SetMin(S) == CHOOSE x \in S : \A y \in S : x <= y

\* number of consecutive whitespace characters of s from position j on
WsRun(s, j) ==
  LET stops == {q \in j..Len(s) : ~IsSpace(s[q])}
  IN  IF j > Len(s) THEN 0
      ELSE IF stops = {} THEN Len(s) - j + 1
      ELSE SetMin(stops) - j

\* String.prototype.trim: leading and trailing whitespace removed
Trim(s) ==
  LET keep == {q \in 1..Len(s) : ~IsSpace(s[q])}
  IN  IF keep = {} THEN <<>>
      ELSE SubSeq(s, SetMin(keep), SetMax(keep))

(***************************************************************************)
(* The session-switch pattern                                              *)
(*   /(?:load|switch to|open)\s+(?:the\s+)?(.+?)(?:\s+session)?$/i         *)
(* matched the way a backtracking engine matches it: the leftmost start,   *)
(* the alternatives in order, greedy \s+ and (?:...)? tried longest first, *)
(* the lazy (.+?) tried shortest first.                                    *)
(***************************************************************************)
VerbLoad == <<"l", "o", "a", "d">>

VerbSwitchTo == <<"s", "w", "i", "t", "c", "h", " ", "t", "o">>

VerbOpen == <<"o", "p", "e", "n">>

Verbs == <<VerbLoad, VerbSwitchTo, VerbOpen>>

WordThe == <<"t", "h", "e">>

WordSession == <<"s", "e", "s", "s", "i", "o", "n">>

\* a failed match: String.prototype.match returns null
NoMatch == [matched |-> FALSE, group1 |-> <<>>]

\* the literal w occurs in s at position j, letter case ignored
LiteralAt(s, j, w) ==
  /\ j >= 1
  /\ j + Len(w) - 1 <= Len(s)
  /\ \A x \in 1..Len(w) : Lower(s[j + x - 1]) = Lower(w[x])

\* (?:\s+session)?$ at position q
TailAt(s, q) ==
  \/ \E k \in 1..WsRun(s, q) :
       /\ LiteralAt(s, q + k, WordSession)
       /\ q + k + Len(WordSession) = Len(s) + 1
  \/ q = Len(s) + 1

\* (.+?)(?:\s+session)?$ at position p: the shortest group 1 that lets the rest match
GroupAt(s, p) ==
  LET lens == {n \in 1..(Len(s) - p + 1) :
                 /\ \A q \in p..(p + n - 1) : ~IsLineTerminator(s[q])
                 /\ TailAt(s, p + n)}
  IN  IF p > Len(s) \/ lens = {} THEN NoMatch
      ELSE [matched |-> TRUE, group1 |-> SubSeq(s, p, p + SetMin(lens) - 1)]

\* a pattern without the optional (?:the\s+)?
TheAtNotStripped(s, q) == GroupAt(s, q)

\* (?:the\s+)?(.+?)(?:\s+session)?$ at position q
TheAt(s, q) ==
  LET ks == {k \in 1..WsRun(s, q + Len(WordThe)) :
               GroupAt(s, q + Len(WordThe) + k).matched}
  IN  IF LiteralAt(s, q, WordThe) /\ ks # {}
      THEN GroupAt(s, q + Len(WordThe) + SetMax(ks))
      ELSE GroupAt(s, q)

\* \s+(?:the\s+)?(.+?)(?:\s+session)?$ at position j
SpaceAt(s, j) ==
  LET ks == {k \in 1..WsRun(s, j) : TheAt(s, j + k).matched}
  IN  IF ks = {} THEN NoMatch ELSE TheAt(s, j + SetMax(ks))

\* the whole pattern tried at start position i
PatternAt(s, i) ==
  LET vs == {v \in 1..Len(Verbs) :
               /\ LiteralAt(s, i, Verbs[v])
               /\ SpaceAt(s, i + Len(Verbs[v])).matched}
  IN  IF vs = {} THEN NoMatch
      ELSE SpaceAt(s, i + Len(Verbs[SetMin(vs)]))

\* currentInput.match(...): the match at the leftmost start position, or null
sessionSwitchMatch(s) ==
  LET starts == {i \in 1..Len(s) : PatternAt(s, i).matched}
  IN  IF starts = {} THEN NoMatch ELSE PatternAt(s, SetMin(starts))

(***************************************************************************)
(* Number.prototype.toString: the decimal digits of a non-negative integer *)
(***************************************************************************)
Digits == <<"0", "1", "2", "3", "4", "5", "6", "7", "8", "9">>

RECURSIVE toString(_)
toString(n) ==
  IF n < 10 THEN <<Digits[n + 1]>>
  ELSE toString(n \div 10) \o <<Digits[(n % 10) + 1]>>

(***************************************************************************)
(* What the user can type, and what the completion service can answer.     *)
(***************************************************************************)
InputEmpty == <<>>

InputBlank == <<" ", "\t">>

InputHi == <<" ", "h", "i">>

InputLoadMid ==
  <<"C", "a", "n", " ", "y", "o", "u", " ", "l", "o", "a", "d", " ", "m", "y",
    " ", "r", "e", "c", "e", "n", "t", " ", "t", "r", "a", "d", "e", "s">>

Inputs == {InputEmpty, InputBlank, InputHi, InputLoadMid}

Replies == {<<"o", "k">>}

\* useAuth().user: null, or the signed-in user
NoUser == "null"

Users == {"u1"}

(***************************************************************************)
(* The state.                                                              *)
(*   messages, inputMessage, isLoading  the component's useState values    *)
(*   closure     the inputMessage and isLoading that the handlers created  *)
(*               by the last render closed over                            *)
(*   user        useAuth().user                                            *)
(*   hasCallback whether the onSessionSwitch prop was supplied             *)
(*   now         the latest reading of the clock (Date.now()); a reading   *)
(*               is never less than the one before it                      *)
(*   turns       one record per accepted handleSendMessage call: its       *)
(*               currentInput and sessionSwitchMatch, the effects it       *)
(*               performed so far, in order, and whether it still awaits   *)
(*               aiService.sendChatMessage                                 *)
(***************************************************************************)
VARIABLES messages, inputMessage, isLoading, closure, user, hasCallback, now,
          turns

(***************************************************************************)
(* The state of the two edge functions (the chat and the summary handler), *)
(* which run apart from the component, one request at a time.              *)
(*   req       the request being served: which function it reached, its    *)
(*             method and its body                                         *)
(*   db        the store: the trading_sessions and trades tables, and      *)
(*             whether the store scopes its answers by user_id as asked    *)
(*   env       the function's environment: whether OPENAI_API_KEY is set   *)
(*   pc        the handler's position: the await it is at, or "done"       *)
(*   local     the handler's local constants assigned so far               *)
(*   log       what the handler did to the outside so far, in order: its   *)
(*             store queries and the completion backend requests, each     *)
(*             with the kind of answer it got                              *)
(*   response  the responses the handler returned                          *)
(***************************************************************************)
VARIABLES req, db, env, pc, local, log, response

widgetVars == <<messages, inputMessage, isLoading, closure, user, hasCallback,
                now, turns>>

serverVars == <<req, db, env, pc, local, log, response>>

vars == <<messages, inputMessage, isLoading, closure, user, hasCallback, now,
          turns, req, db, env, pc, local, log, response>>

\* a query's answer before the query was made
NoAnswer == [error |-> FALSE, isNull |-> TRUE, rows |-> <<>>]

\* the handler's constants before they are assigned
NoLocals ==
  [message |-> <<>>, sessionId |-> 0, userId |-> "null", sessions |-> NoAnswer,
   trades |-> NoAnswer, session |-> [id |-> 0]]

\* no function is serving a request
ServerOff ==
  /\ req = [handler |-> "none"]
  /\ db = [sessions |-> <<>>, trades |-> <<>>, scopesByUser |-> TRUE]
  /\ env = [OPENAI_API_KEY |-> FALSE]
  /\ pc = "off"
  /\ local = NoLocals
  /\ log = <<>>
  /\ response = <<>>

Effect(e, arg) == [e |-> e, arg |-> arg]

\* const userMessage / assistantMessage: ChatMessage = {...}; the timestamp
\* (new Date()) is taken as the clock reading of the id
ChatMessage(idTime, role, content, t) ==
  [id |-> toString(idTime), role |-> role, content |-> content, timestamp |-> t]

AckPrefix ==
  <<"I", "'", "l", "l", " ", "s", "w", "i", "t", "c", "h", " ", "y", "o", "u",
    " ", "t", "o", " ", "t", "h", "e", " ", "\"">>

AckSuffix ==
  <<"\"", " ", "s", "e", "s", "s", "i", "o", "n", ".", " ", "L", "e", "t", " ",
    "m", "e", " ", "f", "i", "n", "d", " ", "t", "h", "a", "t", " ", "f", "o",
    "r", " ", "y", "o", "u", "!">>

\* a template without its placeholder
AckContentNoName(sessionName) == AckPrefix \o AckSuffix

\* `I'll switch you to the "${sessionName}" session. Let me find that for you!`
AckContent(sessionName) == AckPrefix \o sessionName \o AckSuffix

Init ==
  /\ messages = <<>>
  /\ inputMessage = <<>>
  /\ isLoading = FALSE
  /\ closure = [inputMessage |-> <<>>, isLoading |-> FALSE]
  /\ user \in Users \cup {NoUser}
  /\ hasCallback \in BOOLEAN
  /\ now = 0
  /\ turns = <<>>
  /\ ServerOff

\* Date.now(): the readings the clock can give next
ClockReadings == now..MaxClock

\* React renders the component again: the handlers are created anew and close
\* over the current state
Render ==
  /\ closure' = [inputMessage |-> inputMessage, isLoading |-> isLoading]
  /\ UNCHANGED <<messages, inputMessage, isLoading, user, hasCallback, now, turns>>
  /\ UNCHANGED serverVars

\* <input disabled={isLoading} onChange={(e) => setInputMessage(e.target.value)}>
OnChange(text) ==
  /\ ~closure.isLoading
  /\ inputMessage' = text
  /\ UNCHANGED <<messages, isLoading, closure, user, hasCallback, now, turns>>
  /\ UNCHANGED serverVars

\* the guard without .trim()
GuardReturnsNoTrim ==
  \/ closure.inputMessage = <<>>
  \/ user = NoUser
  \/ closure.isLoading

\* if (!inputMessage.trim() || !user || isLoading) return;
\* inputMessage and isLoading are the values the handler closed over
GuardReturns ==
  \/ Trim(closure.inputMessage) = <<>>
  \/ user = NoUser
  \/ closure.isLoading

\* setMessages(prev => [message, ...prev])
PrependMessage(prev, message) == <<message>> \o prev

\* setMessages(prev => [...prev, message])
AppendMessage(prev, message) == Append(prev, message)

\* if (sessionSwitchMatch && onSessionSwitch)
TakesSwitchBranch(match) == match.matched /\ hasCallback

\* what every accepted call does before the try block, in order
Started(currentInput) ==
  <<Effect("appendUser", currentInput), Effect("clearInput", <<>>),
    Effect("setLoading", <<>>)>>

\* a catch block that reports the failure in the transcript as well
CatchInjectsMessage(prev) ==
  [messages |-> Append(prev, [id |-> <<"0">>, role |-> "assistant",
                              content |-> <<"e", "r", "r", "o", "r">>,
                              timestamp |-> now]),
   eff |-> <<Effect("toast", <<>>), Effect("appendAssistant", <<"e", "r", "r", "o", "r">>)>>]

\* catch (error) { toast.error('Failed to get Sydney\'s response'); ... }:
\* the transcript it leaves, given the transcript prev it finds, and its effects
Catch(prev) == [messages |-> prev, eff |-> <<Effect("toast", <<>>)>>]

\* a handler without the finally block
FinallyMissing == UNCHANGED isLoading

\* finally { setIsLoading(false); }
Finally == isLoading' = FALSE

\* the session-switch branch: onSessionSwitch(sessionName), which returns or
\* throws; the acknowledgement's id is a later reading of the clock; on return
\* setIsLoading(false) runs at line 81 and again in the finally block
SwitchBranch(currentInput, userMessage, match) ==
  LET sessionName == Trim(match.group1)
  IN  \E later \in {t \in ClockReadings : t >= userMessage.timestamp},
         throws \in BOOLEAN :
        /\ now' = later
        /\ inputMessage' = <<>>
        /\ Finally
        /\ IF throws
           THEN /\ messages' = Catch(AppendMessage(messages, userMessage)).messages
                /\ turns' = Append(turns,
                     [input |-> currentInput, match |-> match, status |-> "failed",
                      eff |-> Started(currentInput) \o
                        <<Effect("onSessionSwitch", sessionName)>> \o
                        Catch(messages).eff \o <<Effect("clearLoading", <<>>)>>])
           ELSE /\ messages' = AppendMessage(AppendMessage(messages, userMessage),
                     ChatMessage(later + 1, "assistant", AckContent(sessionName), later))
                /\ turns' = Append(turns,
                     [input |-> currentInput, match |-> match,
                      status |-> "resolved",
                      eff |-> Started(currentInput) \o
                        <<Effect("onSessionSwitch", sessionName),
                          Effect("appendAssistant", AckContent(sessionName)),
                          Effect("clearLoading", <<>>),
                          Effect("clearLoading", <<>>)>>])

\* a general branch that shows the user's message only once the reply is there
GeneralBranchLateAppend(currentInput, userMessage, match) ==
  /\ UNCHANGED messages
  /\ inputMessage' = <<>>
  /\ isLoading' = TRUE
  /\ turns' = Append(turns,
       [input |-> currentInput, match |-> match, status |-> "sending",
        eff |-> <<Effect("clearInput", <<>>), Effect("setLoading", <<>>),
                  Effect("sendChatMessage", currentInput)>>])
  /\ now' = userMessage.timestamp

\* the general branch up to the await: aiService.sendChatMessage is called
GeneralBranch(currentInput, userMessage, match) ==
  /\ messages' = AppendMessage(messages, userMessage)
  /\ inputMessage' = <<>>
  /\ isLoading' = TRUE
  /\ turns' = Append(turns,
       [input |-> currentInput, match |-> match, status |-> "sending",
        eff |-> Started(currentInput) \o <<Effect("sendChatMessage", currentInput)>>])
  /\ now' = userMessage.timestamp

\* one call of handleSendMessage, up to its return or its await.  The call is
\* that of the handler the last render created; it may be called again before
\* the next render, and then reads the same inputMessage and isLoading.
handleSendMessage ==
  /\ UNCHANGED <<closure, user, hasCallback>>
  /\ UNCHANGED serverVars
  /\ IF GuardReturns
     THEN UNCHANGED <<messages, inputMessage, isLoading, now, turns>>
     ELSE /\ Len(turns) < MaxTurns
          /\ \E t \in ClockReadings :
               LET currentInput == Trim(closure.inputMessage)
                   userMessage == ChatMessage(t, "user", currentInput, t)
                   match == sessionSwitchMatch(currentInput)
               IN  IF TakesSwitchBranch(match)
                   THEN SwitchBranch(currentInput, userMessage, match)
                   ELSE GeneralBranch(currentInput, userMessage, match)

\* the turns whose aiService.sendChatMessage call has not settled
Outstanding == {t \in 1..Len(turns) : turns[t].status = "sending"}

\* the await returns aiResponse: the reply is appended, then the finally block
sendChatMessageResolves(t, aiResponse) ==
  /\ t \in Outstanding
  /\ \E later \in ClockReadings :
       /\ now' = later
       /\ messages' = AppendMessage(messages,
            ChatMessage(later + 1, "assistant", aiResponse, later))
  /\ Finally
  /\ turns' = [turns EXCEPT ![t] =
       [@ EXCEPT !.status = "resolved",
                 !.eff = @ \o <<Effect("appendAssistant", aiResponse),
                                Effect("clearLoading", <<>>)>>]]
  /\ UNCHANGED <<inputMessage, closure, user, hasCallback>>
  /\ UNCHANGED serverVars

\* the await throws: the catch block, then the finally block
sendChatMessageRejects(t) ==
  /\ t \in Outstanding
  /\ messages' = Catch(messages).messages
  /\ Finally
  /\ turns' = [turns EXCEPT ![t] =
       [@ EXCEPT !.status = "failed",
                 !.eff = @ \o Catch(messages).eff \o <<Effect("clearLoading", <<>>)>>]]
  /\ UNCHANGED <<inputMessage, closure, user, hasCallback, now>>
  /\ UNCHANGED serverVars

\* a reset that also drops the loading flag
clearChatResetsLoading ==
  /\ messages' = <<>>
  /\ isLoading' = FALSE
  /\ UNCHANGED <<inputMessage, closure, user, hasCallback, now, turns>>
  /\ UNCHANGED serverVars

\* const clearChat = () => { setMessages([]); };  (callable in any state)
clearChat ==
  /\ messages' = <<>>
  /\ UNCHANGED <<inputMessage, isLoading, closure, user, hasCallback, now, turns>>
  /\ UNCHANGED serverVars

Next ==
  \/ Render
  \/ \E text \in Inputs : OnChange(text)
  \/ handleSendMessage
  \/ \E t \in 1..MaxTurns, aiResponse \in Replies : sendChatMessageResolves(t, aiResponse)
  \/ \E t \in 1..MaxTurns : sendChatMessageRejects(t)
  \/ clearChat

Spec == Init /\ [][Next]_vars

(***************************************************************************)
(* The messages of the shape <verb> [the] <name> [session], typed into the *)
(* input field and submitted.  A shape is the four parts of a message: the *)
(* verb in some letter case, the whitespace after it, the optional "the"   *)
(* with its whitespace, the name, the optional "session" with the          *)
(* whitespace before it.  No name is the word "the", begins with "the" and *)
(* a space or ends with a space and "session", so that a message has one   *)
(* name only.                                                              *)
(***************************************************************************)
MaxGap == 2

Spaces(n) == [i \in 1..n |-> " "]

VerbForms ==
  {VerbLoad, <<"L", "o", "a", "d">>, VerbSwitchTo,
   <<"S", "W", "I", "T", "C", "H", " ", "T", "O">>, VerbOpen, <<"O", "p", "e", "N">>}

TheForms == {<<>>, WordThe \o Spaces(1), <<"T", "h", "E">> \o Spaces(MaxGap)}

SessionForms ==
  {<<>>, Spaces(1) \o WordSession,
   Spaces(MaxGap) \o <<"S", "e", "s", "s", "i", "o", "N">>}

SessionNames ==
  {<<"A">>,
   <<"B", "T", "C", " ", "5", " ", "M", "i", "n", "u", "t", "e">>,
   <<"a", "-", "b", "!">>,
   <<"t", "h", "e", "o", "r", "y">>,
   <<"S", "e", "s", "s", "i", "o", "n", " ", "2">>}

Shapes ==
  [verb : VerbForms, gap : {1, MaxGap}, the : TheForms, name : SessionNames,
   session : SessionForms]

\* the message a shape stands for
Compose(sh) == sh.verb \o Spaces(sh.gap) \o sh.the \o sh.name \o sh.session

ShapedInputs == {Compose(sh) : sh \in Shapes}

\* the names of the shapes that make up message m
NamesOf == [m \in ShapedInputs |-> {sh.name : sh \in {x \in Shapes : Compose(x) = m}}]

\* the user typed a shaped message, padded with blanks or not, and the
\* component rendered; the clock, which plays no part in the extraction, is at
\* its last reading
InitMatch ==
  /\ messages = <<>>
  /\ \E m \in ShapedInputs, pad \in 0..1 :
       inputMessage = Spaces(pad) \o m \o Spaces(pad)
  /\ isLoading = FALSE
  /\ closure = [inputMessage |-> inputMessage, isLoading |-> FALSE]
  /\ user \in Users
  /\ hasCallback = TRUE
  /\ now = MaxClock
  /\ turns = <<>>
  /\ ServerOff

NextMatch == handleSendMessage

SpecMatch == InitMatch /\ [][NextMatch]_vars

(***************************************************************************)
(* The store the two edge functions read: the trading_sessions and trades  *)
(* tables.  A table of n sessions holds TradesPerSession trades for each;  *)
(* session 2 belongs to another user; the rows are kept in insertion       *)
(* order, which is not the order of created_at.                            *)
(***************************************************************************)
MaxSessions == 7

TradesPerSession == 3

\* the user the requests are made for, and the owner of session 2
OtherUser == "u2"

ProfitLosses == <<100, -50, 0, -20, 30>>

CreatedAt(i) == IF i % 2 = 1 THEN i + 100 ELSE i

\* interface TradingSession
TradingSession(i) ==
  [id |-> i, user_id |-> IF i = 2 THEN OtherUser ELSE "u1",
   created_at |-> CreatedAt(i)]

\* interface Trade
Trade(j) ==
  [id |-> j, session_id |-> ((j - 1) \div TradesPerSession) + 1,
   margin |-> 100 + j,
   roi |-> ProfitLosses[((j - 1) % Len(ProfitLosses)) + 1] \div 10,
   profit_loss |-> ProfitLosses[((j - 1) % Len(ProfitLosses)) + 1],
   created_at |-> CreatedAt(j)]

Tables(n) ==
  [sessions |-> [i \in 1..n |-> TradingSession(i)],
   trades |-> [j \in 1..(n * TradesPerSession) |-> Trade(j)]]

\* the user_id of the session a trade belongs to (trading_sessions!inner)
OwnerOf(trade) ==
  LET own == {i \in DOMAIN db.sessions : db.sessions[i].id = trade.session_id}
  IN  db.sessions[CHOOSE i \in own : TRUE].user_id

\* the rows of a table at the positions kept, in table order
Select(rows, kept) ==
  [k \in 1..Cardinality(kept) |->
     rows[CHOOSE i \in kept : Cardinality({j \in kept : j <= i}) = k]]

\* .order('created_at', { ascending: false })
RECURSIVE OrderDescending(_)
OrderDescending(rows) ==
  IF rows = <<>> THEN <<>>
  ELSE LET latest == CHOOSE i \in DOMAIN rows :
                       \A k \in DOMAIN rows : rows[k].created_at <= rows[i].created_at
       IN  <<rows[latest]>> \o
           OrderDescending(SubSeq(rows, 1, latest - 1) \o
                           SubSeq(rows, latest + 1, Len(rows)))

\* what a query can answer: an error, no error and no data, or the rows
StoreReplies(rows) ==
  {[error |-> TRUE, isNull |-> TRUE, rows |-> <<>>],
   [error |-> FALSE, isNull |-> TRUE, rows |-> <<>>],
   [error |-> FALSE, isNull |-> FALSE, rows |-> rows]}

\* .eq('user_id', userId): applied by the store, unless the store fails to
\* scope its answers by user
ScopedTo(userId, owner) == db.scopesByUser => owner = userId

\* from('trading_sessions').select('*').eq('user_id', userId).order(...)
SessionsOf(userId) ==
  LET kept == {i \in DOMAIN db.sessions : ScopedTo(userId, db.sessions[i].user_id)}
  IN  OrderDescending(Select(db.sessions, kept))

\* from('trades').select('*, trading_sessions!inner(name, user_id)')
\*   .eq('trading_sessions.user_id', userId).order(...)
Joined(t) ==
  [id |-> t.id, session_id |-> t.session_id, margin |-> t.margin, roi |-> t.roi,
   profit_loss |-> t.profit_loss, created_at |-> t.created_at,
   trading_sessions |-> [user_id |-> OwnerOf(t)]]

TradesOf(userId) ==
  LET kept == {j \in DOMAIN db.trades : ScopedTo(userId, OwnerOf(db.trades[j]))}
      rows == OrderDescending(Select(db.trades, kept))
  IN  [k \in DOMAIN rows |-> Joined(rows[k])]

\* a lookup by id alone, without .eq('user_id', userId)
SessionLookupById(sessionId, userId) ==
  LET kept == {i \in DOMAIN db.sessions : db.sessions[i].id = sessionId}
      rows == Select(db.sessions, kept)
  IN  IF Len(rows) = 1
      THEN {[error |-> FALSE, isNull |-> FALSE, rows |-> rows],
            [error |-> TRUE, isNull |-> TRUE, rows |-> <<>>]}
      ELSE {[error |-> TRUE, isNull |-> TRUE, rows |-> <<>>]}

\* from('trading_sessions').select('*').eq('id', sessionId)
\*   .eq('user_id', userId).single(): one row, or an error
SessionLookup(sessionId, userId) ==
  LET kept == {i \in DOMAIN db.sessions :
                 /\ db.sessions[i].id = sessionId
                 /\ ScopedTo(userId, db.sessions[i].user_id)}
      rows == Select(db.sessions, kept)
  IN  IF Len(rows) = 1
      THEN {[error |-> FALSE, isNull |-> FALSE, rows |-> rows],
            [error |-> TRUE, isNull |-> TRUE, rows |-> <<>>]}
      ELSE {[error |-> TRUE, isNull |-> TRUE, rows |-> <<>>]}

\* from('trades').select('*').eq('session_id', sessionId).order(...)
TradesOfSession(sessionId) ==
  LET kept == {j \in DOMAIN db.trades : db.trades[j].session_id = sessionId}
  IN  OrderDescending(Select(db.trades, kept))

(***************************************************************************)
(* The statistics both handlers compute.  trades is a query's answer: null *)
(* (isNull) or rows.  A quotient is kept exact, as numerator and           *)
(* denominator.                                                            *)
(***************************************************************************)
RECURSIVE Sum(_)
Sum(numbers) ==
  IF numbers = <<>> THEN 0 ELSE Head(numbers) + Sum(Tail(numbers))

\* trades?.length || 0
totalTrades(trades) == IF trades.isNull THEN 0 ELSE Len(trades.rows)

\* trades?.reduce((sum, trade) => sum + trade.profit_loss, 0) || 0
totalProfit(trades) ==
  IF trades.isNull THEN 0
  ELSE Sum([k \in DOMAIN trades.rows |-> trades.rows[k].profit_loss])

\* trades?.filter(trade => trade.profit_loss > 0).length || 0
winningTrades(trades) ==
  IF trades.isNull THEN 0
  ELSE Cardinality({k \in DOMAIN trades.rows : trades.rows[k].profit_loss > 0})

\* a filter that takes a trade without profit for a losing one
losingTradesCountsZero(trades) ==
  IF trades.isNull THEN 0
  ELSE Cardinality({k \in DOMAIN trades.rows : trades.rows[k].profit_loss <= 0})

\* trades?.filter(trade => trade.profit_loss < 0).length || 0
losingTrades(trades) ==
  IF trades.isNull THEN 0
  ELSE Cardinality({k \in DOMAIN trades.rows : trades.rows[k].profit_loss < 0})

\* trades?.length ? (winningTrades / trades.length) * 100 : 0
winRate(trades) ==
  IF totalTrades(trades) # 0
  THEN [num |-> winningTrades(trades) * 100, den |-> totalTrades(trades)]
  ELSE [num |-> 0, den |-> 1]

\* trades?.reduce((sum, trade) => sum + trade.margin, 0) || 0
totalMargin(trades) ==
  IF trades.isNull THEN 0
  ELSE Sum([k \in DOMAIN trades.rows |-> trades.rows[k].margin])

\* totalTrades ? trades.reduce((sum, trade) => sum + trade.roi, 0) / totalTrades : 0
avgROI(trades) ==
  IF totalTrades(trades) # 0
  THEN [num |-> Sum([k \in DOMAIN trades.rows |-> trades.rows[k].roi]),
        den |-> totalTrades(trades)]
  ELSE [num |-> 0, den |-> 1]

\* array.slice(0, n)
Slice(rows, n) == SubSeq(rows, 1, IF Len(rows) < n THEN Len(rows) ELSE n)

(***************************************************************************)
(* Requests, the completion backend's answers, and the responses.          *)
(***************************************************************************)
\* the sessionId of a request: the user's own session 1, session 2 of the
\* other user, and 0, which no session has
SessionIds == {0, 1, 2}

\* await req.json(): the body does not parse, or yields these fields
Bodies ==
  {[parsable |-> FALSE, message |-> <<>>, sessionId |-> 0, userId |-> "u1"]} \cup
  [parsable : {TRUE}, message : {<<"h", "i">>}, sessionId : SessionIds,
   userId : Users]

Requests == [handler : {"chat", "summary"}, method : {"OPTIONS", "POST"}, body : Bodies]

\* message.content of a choice: null, the empty string, or text
Contents ==
  {[isNull |-> TRUE, text |-> <<>>], [isNull |-> FALSE, text |-> <<>>],
   [isNull |-> FALSE, text |-> <<"o", "k">>]}

\* what JSON bodies a 2xx answer of the backend can carry: no choices field,
\* no choice, a choice without message, a choice with a message
CompletionBodies ==
  {[hasChoices |-> FALSE, choices |-> <<>>],
   [hasChoices |-> TRUE, choices |-> <<>>],
   [hasChoices |-> TRUE,
    choices |-> <<[hasMessage |-> FALSE, message |-> [content |-> [isNull |-> TRUE, text |-> <<>>]]]>>]}
  \cup {[hasChoices |-> TRUE,
         choices |-> <<[hasMessage |-> TRUE, message |-> [content |-> c]]>>] : c \in Contents}

\* how await fetch(...) ends: it rejects, or resolves with a status and a body
\* (json: whether openAIResponse.json() parses it)
BackendOutcomes ==
  {[rejects |-> TRUE, status |-> 0, json |-> FALSE,
    data |-> [hasChoices |-> FALSE, choices |-> <<>>]]} \cup
  {[rejects |-> FALSE, status |-> st, json |-> FALSE,
    data |-> [hasChoices |-> FALSE, choices |-> <<>>]] : st \in {200, 429, 500}} \cup
  {[rejects |-> FALSE, status |-> 200, json |-> TRUE, data |-> d] : d \in CompletionBodies}

\* openAIResponse.ok
Ok(status) == status >= 200 /\ status <= 299

\* new Error(message), and the errors the runtime throws; message is the
\* text in parts
Error(parts) == [message |-> parts]

JsonSyntaxError == Error(<<"SyntaxError: Unexpected token">>)

FetchTypeError == Error(<<"TypeError: error sending request">>)

UndefinedTypeError == Error(<<"TypeError: Cannot read properties of undefined (reading '0')">>)

\* new Response(null, { headers: corsHeaders })
CorsResponse == [status |-> 200, body |-> [kind |-> "null"]]

\* the value of choices[0]?.message?.content || fallback, or the TypeError
\* that reading [0] of an absent choices field throws
CompletionText(aiData, fallback) ==
  IF ~aiData.hasChoices THEN [throws |-> TRUE, text |-> <<>>]
  ELSE IF aiData.choices = <<>> THEN [throws |-> FALSE, text |-> fallback]
  ELSE IF ~aiData.choices[1].hasMessage THEN [throws |-> FALSE, text |-> fallback]
  ELSE IF \/ aiData.choices[1].message.content.isNull
          \/ aiData.choices[1].message.content.text = <<>>
       THEN [throws |-> FALSE, text |-> fallback]
  ELSE [throws |-> FALSE, text |-> aiData.choices[1].message.content.text]

\* what the code after await fetch(...) makes of the outcome: the error it
\* throws, or the completion text
Completion(outcome, fallback) ==
  IF outcome.rejects THEN [throws |-> TRUE, error |-> FetchTypeError, text |-> <<>>]
  ELSE IF ~Ok(outcome.status)
       THEN [throws |-> TRUE,
             error |-> Error(<<"OpenAI API request failed: ", toString(outcome.status)>>),
             text |-> <<>>]
  ELSE IF ~outcome.json THEN [throws |-> TRUE, error |-> JsonSyntaxError, text |-> <<>>]
  ELSE IF CompletionText(outcome.data, fallback).throws
       THEN [throws |-> TRUE, error |-> UndefinedTypeError, text |-> <<>>]
  ELSE [throws |-> FALSE, error |-> Error(<<>>),
        text |-> CompletionText(outcome.data, fallback).text]

\* what the log keeps of a query's answer
Answered(reply) == [error |-> reply.error, isNull |-> reply.isNull]

\* the handler returns a response and is done
Respond(r) ==
  /\ response' = Append(response, r)
  /\ pc' = "done"

\* a request arrives at one of the two functions
InitHandlers ==
  /\ messages = <<>>
  /\ inputMessage = <<>>
  /\ isLoading = FALSE
  /\ closure = [inputMessage |-> <<>>, isLoading |-> FALSE]
  /\ user = NoUser
  /\ hasCallback = FALSE
  /\ now = 0
  /\ turns = <<>>
  /\ req \in Requests
  /\ \E n \in 0..MaxSessions, scopes \in BOOLEAN :
       db = [sessions |-> Tables(n).sessions, trades |-> Tables(n).trades,
             scopesByUser |-> scopes]
  /\ env \in [OPENAI_API_KEY : BOOLEAN]
  /\ pc = "receive"
  /\ local = NoLocals
  /\ log = <<>>
  /\ response = <<>>

(***************************************************************************)
(* The chat handler (Deno.serve of ai-chat), one action per await.         *)
(***************************************************************************)
ChatMaxTokens == 1000

RecentSessions == 5

RecentTrades == 10

ChatFallback ==
  <<"S", "o", "r", "r", "y", ",", " ", "I", " ", "c", "o", "u", "l", "d", " ",
    "n", "o", "t", " ", "p", "r", "o", "c", "e", "s", "s", " ", "y", "o", "u",
    "r", " ", "r", "e", "q", "u", "e", "s", "t", ".">>

\* a catch block whose response leaves out status: 500
chatCatchNoStatus(error) ==
  [status |-> 200,
   body |-> [error |-> "Failed to process chat request", details |-> error.message]]

\* catch (error): status 500 and { error, details: error.message }
chatCatch(error) ==
  [status |-> 500,
   body |-> [error |-> "Failed to process chat request", details |-> error.message]]

\* a prompt whose statistics are computed over the trades it lists
chatSystemPromptSlicedStats ==
  LET listed == [error |-> FALSE, isNull |-> local.trades.isNull,
                 rows |-> Slice(local.trades.rows, RecentTrades)]
  IN  [totalSessions |-> IF local.sessions.isNull THEN 0 ELSE Len(local.sessions.rows),
       totalTrades |-> totalTrades(listed),
       totalProfit |-> totalProfit(listed),
       winRate |-> winRate(listed),
       winningTrades |-> winningTrades(listed),
       losingTrades |-> losingTrades(listed),
       recentSessions |-> Slice(local.sessions.rows, RecentSessions),
       recentTrades |-> Slice(local.trades.rows, RecentTrades)]

\* the values the system prompt is made of (the template's fixed text left
\* out); sessions?.slice(0, 5) and trades?.slice(0, 10) of a null answer list
\* nothing
chatSystemPrompt ==
  [totalSessions |-> IF local.sessions.isNull THEN 0 ELSE Len(local.sessions.rows),
   totalTrades |-> totalTrades(local.trades),
   totalProfit |-> totalProfit(local.trades),
   winRate |-> winRate(local.trades),
   winningTrades |-> winningTrades(local.trades),
   losingTrades |-> losingTrades(local.trades),
   recentSessions |-> Slice(local.sessions.rows, RecentSessions),
   recentTrades |-> Slice(local.trades.rows, RecentTrades)]

\* the body of the POST to the completion backend
chatCompletionRequest ==
  [handler |-> "chat", max_tokens |-> ChatMaxTokens, system |-> chatSystemPrompt,
   user |-> local.message]

\* the OPTIONS answer, createClient, await req.json()
chatReceive ==
  /\ req.handler = "chat"
  /\ pc = "receive"
  /\ IF req.method = "OPTIONS"
     THEN Respond(CorsResponse) /\ UNCHANGED local
     ELSE IF ~req.body.parsable
     THEN Respond(chatCatch(JsonSyntaxError)) /\ UNCHANGED local
     ELSE /\ local' = [local EXCEPT !.message = req.body.message,
                                    !.sessionId = req.body.sessionId,
                                    !.userId = req.body.userId]
          /\ pc' = "sessions"
          /\ UNCHANGED response
  /\ UNCHANGED <<req, db, env, log>>
  /\ UNCHANGED widgetVars

\* const { data: sessions, error: sessionsError } = await ...; if (sessionsError) throw
chatFetchSessions ==
  /\ req.handler = "chat"
  /\ pc = "sessions"
  /\ \E reply \in StoreReplies(SessionsOf(local.userId)) :
       /\ log' = Append(log, Effect("listSessions", Answered(reply)))
       /\ IF reply.error
          THEN Respond(chatCatch(Error(<<"Failed to fetch sessions">>))) /\ UNCHANGED local
          ELSE /\ local' = [local EXCEPT !.sessions = reply]
               /\ pc' = "trades"
               /\ UNCHANGED response
  /\ UNCHANGED <<req, db, env>>
  /\ UNCHANGED widgetVars

\* const { data: trades, error: tradesError } = await ...; if (tradesError) throw
chatFetchTrades ==
  /\ req.handler = "chat"
  /\ pc = "trades"
  /\ \E reply \in StoreReplies(TradesOf(local.userId)) :
       /\ log' = Append(log, Effect("listTrades", Answered(reply)))
       /\ IF reply.error
          THEN Respond(chatCatch(Error(<<"Failed to fetch trades">>))) /\ UNCHANGED local
          ELSE /\ local' = [local EXCEPT !.trades = reply]
               /\ pc' = "send"
               /\ UNCHANGED response
  /\ UNCHANGED <<req, db, env>>
  /\ UNCHANGED widgetVars

\* a handler that calls fetch(...) whether or not the API key is set
chatSendSkipsKeyCheck ==
  /\ req.handler = "chat"
  /\ pc = "send"
  /\ log' = Append(log, Effect("fetch", chatCompletionRequest))
  /\ pc' = "backend"
  /\ UNCHANGED <<req, db, env, local, response>>
  /\ UNCHANGED widgetVars

\* the context and the statistics, the API key check, and fetch(...) called
chatSend ==
  /\ req.handler = "chat"
  /\ pc = "send"
  /\ IF ~env.OPENAI_API_KEY
     THEN /\ Respond(chatCatch(Error(<<"OpenAI API key not configured">>)))
          /\ UNCHANGED log
     ELSE /\ log' = Append(log, Effect("fetch", chatCompletionRequest))
          /\ pc' = "backend"
          /\ UNCHANGED response
  /\ UNCHANGED <<req, db, env, local>>
  /\ UNCHANGED widgetVars

\* a handler that sends the request again when the backend answers non-2xx
chatBackendRetries ==
  /\ req.handler = "chat"
  /\ pc = "backend"
  /\ \E outcome \in BackendOutcomes :
       /\ log' = Append(log, Effect("fetched", outcome))
       /\ IF ~outcome.rejects /\ ~Ok(outcome.status) /\ Len(log) < 6
          THEN pc' = "send" /\ UNCHANGED response
          ELSE IF Completion(outcome, ChatFallback).throws
          THEN Respond(chatCatch(Completion(outcome, ChatFallback).error))
          ELSE Respond([status |-> 200,
                        body |-> [message |-> Completion(outcome, ChatFallback).text]])
  /\ UNCHANGED <<req, db, env, local>>
  /\ UNCHANGED widgetVars

\* await fetch(...) ends; if (!openAIResponse.ok) throw; the answer is read
\* and returned
chatBackend ==
  /\ req.handler = "chat"
  /\ pc = "backend"
  /\ \E outcome \in BackendOutcomes :
       /\ log' = Append(log, Effect("fetched", outcome))
       /\ IF Completion(outcome, ChatFallback).throws
          THEN Respond(chatCatch(Completion(outcome, ChatFallback).error))
          ELSE Respond([status |-> 200,
                        body |-> [message |-> Completion(outcome, ChatFallback).text]])
  /\ UNCHANGED <<req, db, env, local>>
  /\ UNCHANGED widgetVars

(***************************************************************************)
(* The summary handler (Deno.serve of the session summary function).       *)
(***************************************************************************)
SummaryMaxTokens == 800

SummaryFallback ==
  <<"U", "n", "a", "b", "l", "e", " ", "t", "o", " ", "g", "e", "n", "e", "r",
    "a", "t", "e", " ", "s", "u", "m", "m", "a", "r", "y", ".">>

\* catch (error): status 500 and { error, details: error.message }
summaryCatch(error) ==
  [status |-> 500,
   body |-> [error |-> "Failed to generate session summary", details |-> error.message]]

\* the values the system prompt is made of; JSON.stringify(trades) is all the
\* session's trades
summarySystemPrompt ==
  [session |-> local.session,
   totalTrades |-> totalTrades(local.trades),
   totalProfit |-> totalProfit(local.trades),
   winRate |-> winRate(local.trades),
   winningTrades |-> winningTrades(local.trades),
   losingTrades |-> losingTrades(local.trades),
   totalMargin |-> totalMargin(local.trades),
   avgROI |-> avgROI(local.trades),
   trades |-> local.trades.rows]

summaryCompletionRequest ==
  [handler |-> "summary", max_tokens |-> SummaryMaxTokens,
   system |-> summarySystemPrompt, user |-> <<>>]

\* the OPTIONS answer, createClient, await req.json()
summaryReceive ==
  /\ req.handler = "summary"
  /\ pc = "receive"
  /\ IF req.method = "OPTIONS"
     THEN Respond(CorsResponse) /\ UNCHANGED local
     ELSE IF ~req.body.parsable
     THEN Respond(summaryCatch(JsonSyntaxError)) /\ UNCHANGED local
     ELSE /\ local' = [local EXCEPT !.sessionId = req.body.sessionId,
                                    !.userId = req.body.userId]
          /\ pc' = "session"
          /\ UNCHANGED response
  /\ UNCHANGED <<req, db, env, log>>
  /\ UNCHANGED widgetVars

\* const { data: session, error: sessionError } = await ... .single();
\* if (sessionError || !session) throw new Error('Session not found')
summaryLookup ==
  /\ req.handler = "summary"
  /\ pc = "session"
  /\ \E reply \in SessionLookup(local.sessionId, local.userId) :
       /\ log' = Append(log, Effect("getSession", Answered(reply)))
       /\ IF reply.error \/ reply.isNull
          THEN Respond(summaryCatch(Error(<<"Session not found">>))) /\ UNCHANGED local
          ELSE /\ local' = [local EXCEPT !.session = reply.rows[1]]
               /\ pc' = "trades"
               /\ UNCHANGED response
  /\ UNCHANGED <<req, db, env>>
  /\ UNCHANGED widgetVars

\* const { data: trades, error: tradesError } = await ...; if (tradesError) throw
summaryFetchTrades ==
  /\ req.handler = "summary"
  /\ pc = "trades"
  /\ \E reply \in StoreReplies(TradesOfSession(local.sessionId)) :
       /\ log' = Append(log, Effect("listTrades", Answered(reply)))
       /\ IF reply.error
          THEN Respond(summaryCatch(Error(<<"Failed to fetch trades">>))) /\ UNCHANGED local
          ELSE /\ local' = [local EXCEPT !.trades = reply]
               /\ pc' = "send"
               /\ UNCHANGED response
  /\ UNCHANGED <<req, db, env>>
  /\ UNCHANGED widgetVars

\* the statistics, the API key check, and fetch(...) called
summarySend ==
  /\ req.handler = "summary"
  /\ pc = "send"
  /\ IF ~env.OPENAI_API_KEY
     THEN /\ Respond(summaryCatch(Error(<<"OpenAI API key not configured">>)))
          /\ UNCHANGED log
     ELSE /\ log' = Append(log, Effect("fetch", summaryCompletionRequest))
          /\ pc' = "backend"
          /\ UNCHANGED response
  /\ UNCHANGED <<req, db, env, local>>
  /\ UNCHANGED widgetVars

\* await fetch(...) ends; if (!openAIResponse.ok) throw; the answer is read
\* and returned
summaryBackend ==
  /\ req.handler = "summary"
  /\ pc = "backend"
  /\ \E outcome \in BackendOutcomes :
       /\ log' = Append(log, Effect("fetched", outcome))
       /\ IF Completion(outcome, SummaryFallback).throws
          THEN Respond(summaryCatch(Completion(outcome, SummaryFallback).error))
          ELSE Respond([status |-> 200,
                        body |-> [summary |-> Completion(outcome, SummaryFallback).text]])
  /\ UNCHANGED <<req, db, env, local>>
  /\ UNCHANGED widgetVars

NextHandlers ==
  \/ chatReceive
  \/ chatFetchSessions
  \/ chatFetchTrades
  \/ chatSend
  \/ chatBackend
  \/ summaryReceive
  \/ summaryLookup
  \/ summaryFetchTrades
  \/ summarySend
  \/ summaryBackend

SpecHandlers == InitHandlers /\ [][NextHandlers]_vars

(***************************************************************************)
(* The three programs together: the component in the browser, or one of    *)
(* the functions serving a request.  They share no state, so a behaviour   *)
(* is a behaviour of one of them.                                          *)
(***************************************************************************)
InitSystem == Init \/ InitHandlers

NextSystem ==
  \/ pc = "off" /\ Next
  \/ NextHandlers

SpecSystem == InitSystem /\ [][NextSystem]_vars

(***************************************************************************)
(* Vocabulary of the properties.                                           *)
(***************************************************************************)
\* how many effects named e the sequence eff holds
Count(eff, e) == Cardinality({i \in DOMAIN eff : eff[i].e = e})

\* the positions of the effects named e in eff
Positions(eff, e) == {i \in DOMAIN eff : eff[i].e = e}

IsPrefix(a, b) == Len(a) <= Len(b) /\ SubSeq(b, 1, Len(a)) = a

\* text holds part as a run of consecutive characters
Contains(text, part) ==
  \E i \in 0..(Len(text) - Len(part)) : SubSeq(text, i + 1, i + Len(part)) = part

\* text is empty or holds whitespace only
IsBlank(text) == \A i \in DOMAIN text : IsSpace(text[i])

\* a turn whose message the pattern matched, and the name extracted from it
IsSwitchShaped(t) == turns[t].match.matched

NameOf(t) == Trim(turns[t].match.group1)

Finished == {t \in 1..Len(turns) : turns[t].status # "sending"}

(***************************************************************************)
(* C1.  At most one turn is in flight: a handleSendMessage call made while *)
(* an earlier turn has not resolved, the second of two calls of the same   *)
(* render's handler included, appends nothing and starts no request.       *)
(* Stated as: no state has two outstanding sendChatMessage requests.       *)
(***************************************************************************)
C1_SingleInFlight == Cardinality(Outstanding) <= 1

(***************************************************************************)
(* C2, as claimed.  Every accepted turn whose message is switch-shaped     *)
(* with name n contacts no completion client, appends exactly one          *)
(* acknowledgement that holds n, and invokes the callback exactly once     *)
(* with n, whether or not onSessionSwitch was supplied.                    *)
(***************************************************************************)
C2_SwitchAlwaysShortCircuits ==
  \A t \in 1..Len(turns) :
    IsSwitchShaped(t) =>
      /\ Count(turns[t].eff, "sendChatMessage") = 0
      /\ Count(turns[t].eff, "onSessionSwitch") = 1
      /\ \A i \in Positions(turns[t].eff, "onSessionSwitch") :
           turns[t].eff[i].arg = NameOf(t)
      /\ Count(turns[t].eff, "appendAssistant") = 1
      /\ \A i \in Positions(turns[t].eff, "appendAssistant") :
           Contains(turns[t].eff[i].arg, NameOf(t))

(***************************************************************************)
(* C2, amended.  With onSessionSwitch supplied, a switch-shaped turn is    *)
(* over when handleSendMessage returns, contacts no completion client and  *)
(* invokes the callback exactly once, with n; if the callback returns,     *)
(* exactly one acknowledgement holding n follows the user's message in the *)
(* transcript; if it throws, no acknowledgement is appended and one        *)
(* notification is raised.  Without onSessionSwitch the message is sent to *)
(* the completion client like any other and no callback is invoked.        *)
(***************************************************************************)
C2_SwitchTurnState ==
  \A t \in 1..Len(turns) :
    IsSwitchShaped(t) =>
      IF hasCallback
      THEN /\ turns[t].status # "sending"
           /\ Count(turns[t].eff, "sendChatMessage") = 0
           /\ Count(turns[t].eff, "onSessionSwitch") = 1
           /\ \A i \in Positions(turns[t].eff, "onSessionSwitch") :
                turns[t].eff[i].arg = NameOf(t)
           /\ turns[t].status = "resolved" =>
                /\ Count(turns[t].eff, "appendAssistant") = 1
                /\ Count(turns[t].eff, "toast") = 0
                /\ \A i \in Positions(turns[t].eff, "appendAssistant") :
                     Contains(turns[t].eff[i].arg, NameOf(t))
           /\ turns[t].status = "failed" =>
                /\ Count(turns[t].eff, "appendAssistant") = 0
                /\ Count(turns[t].eff, "toast") = 1
      ELSE /\ Count(turns[t].eff, "onSessionSwitch") = 0
           /\ Count(turns[t].eff, "sendChatMessage") = 1

\* the transcript after a switch-shaped call with the callback supplied
C2_SwitchTurnStep ==
  (/\ Len(turns') = Len(turns) + 1
   /\ turns'[Len(turns')].match.matched
   /\ hasCallback)
  => LET n == Trim(turns'[Len(turns')].match.group1)
         k == Len(messages)
     IN  /\ Outstanding' = Outstanding
         /\ IF turns'[Len(turns')].status = "resolved"
            THEN /\ Len(messages') = k + 2
                 /\ SubSeq(messages', 1, k) = messages
                 /\ messages'[k + 1].role = "user"
                 /\ messages'[k + 2].role = "assistant"
                 /\ Contains(messages'[k + 2].content, n)
            ELSE /\ Len(messages') = k + 1
                 /\ SubSeq(messages', 1, k) = messages
                 /\ messages'[k + 1].role = "user"

\* C2, amended: the state and the step property together
C2_SwitchTurn == []C2_SwitchTurnState /\ [][C2_SwitchTurnStep]_vars

C2_Witness ==
  /\ hasCallback
  /\ \E t \in 1..Len(turns) :
       /\ IsSwitchShaped(t)
       /\ turns[t].status = "resolved"
       /\ Len(messages) >= 2
       /\ messages[Len(messages)].role = "assistant"
       /\ Contains(messages[Len(messages)].content, NameOf(t))

(***************************************************************************)
(* C3.  A general-query turn whose sendChatMessage call rejects appends no *)
(* assistant message: the accepting call appends the user's message and    *)
(* nothing else, the step that handles the rejection leaves the transcript *)
(* as it was, so all the turn ever appended is its user message, and the   *)
(* turn raises exactly one notification.                                   *)
(***************************************************************************)
C3_FailedTurnState ==
  \A t \in 1..Len(turns) :
    (turns[t].status = "failed" /\ Count(turns[t].eff, "sendChatMessage") = 1) =>
      /\ Count(turns[t].eff, "appendAssistant") = 0
      /\ Count(turns[t].eff, "appendUser") = 1
      /\ Count(turns[t].eff, "toast") = 1

C3_FailedTurnStep ==
  /\ (\E t \in 1..Len(turns) : sendChatMessageRejects(t)) => messages' = messages
  /\ (Len(turns') = Len(turns) + 1 /\ Len(turns') \in Outstanding') =>
       /\ Len(messages') = Len(messages) + 1
       /\ SubSeq(messages', 1, Len(messages)) = messages
       /\ messages'[Len(messages')].role = "user"

\* C3: a failed general-query turn appends no assistant message and raises
\* exactly one notification
C3_FailedTurn == []C3_FailedTurnState /\ [][C3_FailedTurnStep]_vars

C3_Witness ==
  /\ \E t \in 1..Len(turns) :
       /\ turns[t].status = "failed"
       /\ Count(turns[t].eff, "sendChatMessage") = 1
  /\ Len(messages) >= 1
  /\ messages[Len(messages)].role = "user"

(***************************************************************************)
(* C4.  Every accepted turn returns the component to idle: the last thing  *)
(* a finished turn did is to set isLoading to false, whatever its outcome  *)
(* (acknowledgement, throwing callback, reply, rejection), and in no state *)
(* is isLoading true while no request is outstanding.                      *)
(***************************************************************************)
C4_ReturnsToIdle ==
  /\ Outstanding = {} => ~isLoading
  /\ \A t \in Finished : turns[t].eff[Len(turns[t].eff)].e = "clearLoading"

C4_Witness ==
  /\ Outstanding = {}
  /\ ~isLoading
  /\ \E t \in Finished :
       turns[t].status = "failed" /\ Count(turns[t].eff, "onSessionSwitch") = 1
  /\ \E t \in Finished :
       turns[t].status = "failed" /\ Count(turns[t].eff, "sendChatMessage") = 1

(***************************************************************************)
(* C5.  The user's message, the trimmed input with role user, is appended  *)
(* by the accepting call itself, before the completion request is issued   *)
(* and before any assistant message of the turn: while the request is      *)
(* outstanding the only entry the turn has appended is the user's message. *)
(***************************************************************************)
C5_UserMessageFirstState ==
  \A t \in 1..Len(turns) :
    /\ turns[t].eff[1] = Effect("appendUser", turns[t].input)
    /\ \A i \in Positions(turns[t].eff, "sendChatMessage") \cup
                Positions(turns[t].eff, "appendAssistant") : i > 1
    /\ t \in Outstanding =>
         /\ Count(turns[t].eff, "appendUser") = 1
         /\ Count(turns[t].eff, "appendAssistant") = 0

C5_UserMessageFirstStep ==
  Len(turns') = Len(turns) + 1 =>
    LET k == Len(messages)
        text == closure.inputMessage
    IN  /\ Len(messages') > k
        /\ SubSeq(messages', 1, k) = messages
        /\ messages'[k + 1].role = "user"
        /\ messages'[k + 1].content # <<>>
        /\ ~IsSpace(messages'[k + 1].content[1])
        /\ ~IsSpace(messages'[k + 1].content[Len(messages'[k + 1].content)])
        /\ \E i \in 0..Len(text) :
             /\ IsBlank(SubSeq(text, 1, i))
             /\ IsPrefix(messages'[k + 1].content, SubSeq(text, i + 1, Len(text)))
             /\ IsBlank(SubSeq(text, i + 1 + Len(messages'[k + 1].content), Len(text)))
        /\ Len(turns') \in Outstanding' => Len(messages') = k + 1

\* C5: the user's message is appended first, by the accepting call
C5_UserMessageFirst == []C5_UserMessageFirstState /\ [][C5_UserMessageFirstStep]_vars

C5_Witness ==
  /\ Len(turns) \in Outstanding
  /\ closure.inputMessage = InputHi
  /\ Len(messages) >= 1
  /\ messages[Len(messages)].role = "user"
  /\ messages[Len(messages)].content = <<"h", "i">>

(***************************************************************************)
(* C6.  A handleSendMessage call whose input text is empty or whitespace   *)
(* only changes nothing: transcript, input field and loading flag stay as  *)
(* they are, no callback is invoked and no request is issued.              *)
(***************************************************************************)
C6_BlankSubmitStep ==
  (IsBlank(closure.inputMessage) /\ handleSendMessage) =>
    UNCHANGED <<messages, inputMessage, isLoading, turns, now>>

\* C6: a call with empty or whitespace-only input changes nothing
C6_BlankSubmitIsNoOp == [][C6_BlankSubmitStep]_vars

C6_Witness ==
  /\ closure.inputMessage = InputBlank
  /\ inputMessage = InputBlank
  /\ user # NoUser
  /\ ~closure.isLoading

(***************************************************************************)
(* C7.  The transcript is append-only between resets: every step other     *)
(* than clearChat leaves the old transcript a prefix of the new one, so    *)
(* nothing but clearChat removes, reorders or changes an entry.            *)
(***************************************************************************)
C7_AppendOnlyStep == clearChat \/ IsPrefix(messages, messages')

\* C7: only clearChat ever removes or changes an entry of the transcript
C7_AppendOnly == [][C7_AppendOnlyStep]_vars

C7_Witness ==
  /\ Len(messages) >= 3
  /\ messages[1].role = "user"
  /\ messages[Len(messages)].role = "assistant"

(***************************************************************************)
(* C8.  clearChat empties the transcript whatever its length and whether   *)
(* or not a turn is in flight, and changes nothing else: loading flag,     *)
(* input text and outstanding requests stay as they are.                   *)
(***************************************************************************)
C8_ClearChatStep ==
  clearChat =>
    /\ messages' = <<>>
    /\ UNCHANGED <<inputMessage, isLoading, closure, turns>>
    /\ Outstanding' = Outstanding

\* C8: clearChat empties the transcript and changes nothing else
C8_ClearChat == [][C8_ClearChatStep]_vars

C8_Witness ==
  /\ messages = <<>>
  /\ Outstanding # {}
  /\ isLoading

(***************************************************************************)
(* C9.  Message ids are unique within a conversation: no two entries of a  *)
(* transcript have the same id, for any non-decreasing clock readings.     *)
(* Stated for the calls of a handler that closed over the current state,   *)
(* so that it does not rest on a second call of a stale handler: after     *)
(* such a handleSendMessage call no two entries have the same id.          *)
(***************************************************************************)
UniqueIds(transcript) ==
  \A i, j \in DOMAIN transcript : i # j => transcript[i].id # transcript[j].id

C9_UniqueIdsStep ==
  (/\ closure.inputMessage = inputMessage
   /\ closure.isLoading = isLoading
   /\ handleSendMessage)
  => UniqueIds(messages')

\* C9: after a call of an up-to-date handler all ids of the transcript differ
C9_UniqueIds == [][C9_UniqueIdsStep]_vars

(***************************************************************************)
(* C10.  A message in which load, switch to or open appears mid-sentence,  *)
(* after other words, is a general query: no callback is invoked, no       *)
(* acknowledgement is appended and the message goes to the completion      *)
(* client.                                                                 *)
(***************************************************************************)
\* a verb of the pattern occurs in text, but not at its start
VerbMidSentence(text) ==
  /\ \A v \in DOMAIN Verbs : ~LiteralAt(text, 1, Verbs[v])
  /\ \E i \in 2..Len(text), v \in DOMAIN Verbs : LiteralAt(text, i, Verbs[v])

\* C10: a turn whose message has a verb mid-sentence is handled as a general query
C10_MidSentenceIsGeneral ==
  \A t \in 1..Len(turns) :
    VerbMidSentence(turns[t].input) =>
      /\ Count(turns[t].eff, "onSessionSwitch") = 0
      /\ \A i \in Positions(turns[t].eff, "appendAssistant") :
           ~IsPrefix(AckPrefix, turns[t].eff[i].arg)
      /\ Count(turns[t].eff, "sendChatMessage") = 1

(***************************************************************************)
(* C11.  For every message of the shape <verb> [the] <name> [session],     *)
(* the verb in any letter case, the session name the handler extracts and  *)
(* hands to onSessionSwitch is exactly <name>: the leading "the" and the   *)
(* trailing "session" are stripped, the whitespace around the name is      *)
(* trimmed, and the name's letter case and punctuation are kept.           *)
(***************************************************************************)
C11_ExtractsName ==
  \A t \in 1..Len(turns) :
    turns[t].input \in ShapedInputs =>
      /\ turns[t].match.matched
      /\ \A name \in NamesOf[turns[t].input] :
           /\ NameOf(t) = name
           /\ Count(turns[t].eff, "onSessionSwitch") = 1
           /\ \A i \in Positions(turns[t].eff, "onSessionSwitch") :
                turns[t].eff[i].arg = name

C11_Witness ==
  /\ Len(turns) >= 1
  /\ turns[1].input =
       <<"L", "o", "a", "d", " ", "t", "h", "e", " ", "B", "T", "C", " ",
         "5", " ", "M", "i", "n", "u", "t", "e", " ", "s", "e", "s", "s", "i",
         "o", "n">>
  /\ NameOf(1) = <<"B", "T", "C", " ", "5", " ", "M", "i", "n", "u", "t", "e">>

(***************************************************************************)
(* Vocabulary of the handlers' properties.                                 *)
(***************************************************************************)
\* the handler has returned
Done == pc = "done"

\* a 2xx answer of the backend that carries no completion text: the choices
\* field is absent, choices is empty, the message is absent, or the content
\* is null or empty
NoCompletionText(outcome) ==
  /\ ~outcome.rejects
  /\ Ok(outcome.status)
  /\ outcome.json
  /\ \/ ~outcome.data.hasChoices
     \/ outcome.data.choices = <<>>
     \/ ~outcome.data.choices[1].hasMessage
     \/ outcome.data.choices[1].message.content.isNull
     \/ outcome.data.choices[1].message.content.text = <<>>

\* the success response that carries the handler's fixed fallback string
FallbackResponse ==
  IF req.handler = "chat"
  THEN [status |-> 200, body |-> [message |-> ChatFallback]]
  ELSE [status |-> 200, body |-> [summary |-> SummaryFallback]]

(***************************************************************************)
(* C12.  In both handlers every 2xx answer of the backend that carries no  *)
(* completion text (choices absent, choices empty, message absent, content *)
(* empty or null) is a soft failure: the handler returns the success       *)
(* response with the fixed fallback string, never status 500.              *)
(***************************************************************************)
C12_EmptyResponseIsSoft ==
  \A i \in Positions(log, "fetched") :
    NoCompletionText(log[i].arg) => response = <<FallbackResponse>>

(***************************************************************************)
(* C13.  For every non-OPTIONS request to the chat or the summary handler, *)
(* any internal failure (unparsable request body, sessions or trades fetch *)
(* error, session not found, missing API key, backend transport error,     *)
(* non-2xx backend status) yields exactly one response, with status 500    *)
(* and a body of the form {error, details}: the handler never stops short  *)
(* of a response, never returns two, and never answers a failed request    *)
(* with a success response.                                                *)
(***************************************************************************)
\* the positions at which a step of the handler is pending
Awaits ==
  IF req.handler = "chat" THEN {"receive", "sessions", "trades", "send", "backend"}
  ELSE {"receive", "session", "trades", "send", "backend"}

\* one of the listed failures happened to the request
InternalFailure ==
  \/ ~req.body.parsable
  \/ \E i \in Positions(log, "listSessions") \cup Positions(log, "listTrades") :
       log[i].arg.error
  \/ \E i \in Positions(log, "getSession") : log[i].arg.error \/ log[i].arg.isNull
  \/ ~env.OPENAI_API_KEY
  \/ \E i \in Positions(log, "fetched") : log[i].arg.rejects \/ ~Ok(log[i].arg.status)

C13_FailureIs500 ==
  req.method # "OPTIONS" =>
    /\ ~Done => (response = <<>> /\ pc \in Awaits)
    /\ Done => Len(response) = 1
    /\ (Done /\ InternalFailure) =>
         /\ response[1].status = 500
         /\ DOMAIN response[1].body = {"error", "details"}
         /\ response[1].body.error =
              (IF req.handler = "chat" THEN "Failed to process chat request"
               ELSE "Failed to generate session summary")

C13_Witness ==
  /\ Done
  /\ req.handler = "chat"
  /\ req.method = "POST"
  /\ \E i \in Positions(log, "fetched") : ~log[i].arg.rejects /\ log[i].arg.status = 429
  /\ response = <<chatCatch(Error(<<"OpenAI API request failed: ", <<"4", "2", "9">> >>))>>

(***************************************************************************)
(* C14.  There is no automatic retry: a handled chat or summary request    *)
(* sends at most one request to the completion backend, and an accepted    *)
(* conversational turn issues at most one aiService.sendChatMessage call,  *)
(* whatever the outcome (success, non-2xx, transport error, empty          *)
(* response): once the backend has answered, the handler is done.          *)
(***************************************************************************)
C14_NoRetry ==
  /\ Count(log, "fetch") <= 1
  /\ Positions(log, "fetched") # {} => (Done /\ Count(log, "fetch") = 1)
  /\ \A t \in 1..Len(turns) :
       /\ Count(turns[t].eff, "sendChatMessage") <= 1
       /\ t \in Finished =>
            Positions(turns[t].eff, "sendChatMessage") \subseteq 1..(Len(turns[t].eff) - 2)

C14_Witness ==
  /\ Done
  /\ req.handler = "chat"
  /\ \E i \in Positions(log, "fetched") : ~log[i].arg.rejects /\ log[i].arg.status = 500
  /\ Count(log, "fetch") = 1
  /\ response[1].status = 500

(***************************************************************************)
(* C15.  A summary request whose session lookup returns nothing for the    *)
(* given (sessionId, userId) pair fails with the session-not-found error   *)
(* before any trade is read and before the completion backend is           *)
(* contacted, and that is what the lookup returns for an unknown session   *)
(* and for a session owned by another user; the trades of a session are    *)
(* read only after that session was found under the requesting userId.     *)
(* The store is one that scopes its answers by user_id as the query asks.  *)
(***************************************************************************)
\* the store has the requested session, and it is the requesting user's
OwnSession ==
  \E i \in DOMAIN db.sessions :
    /\ db.sessions[i].id = req.body.sessionId
    /\ db.sessions[i].user_id = req.body.userId

\* the session lookup returned nothing
NotFound(answer) == answer.error \/ answer.isNull

C15_SessionNotFound ==
  req.handler = "summary" =>
    /\ \A i \in Positions(log, "getSession") :
         /\ NotFound(log[i].arg) =>
              /\ Done
              /\ response = <<summaryCatch(Error(<<"Session not found">>))>>
              /\ Count(log, "listTrades") = 0
              /\ Count(log, "fetch") = 0
         /\ (db.scopesByUser /\ ~OwnSession) => NotFound(log[i].arg)
    /\ \A i \in Positions(log, "listTrades") \cup Positions(log, "fetch") :
         /\ \E j \in Positions(log, "getSession") : j < i /\ ~NotFound(log[j].arg)
         /\ local.session.id = req.body.sessionId
         /\ db.scopesByUser => local.session.user_id = req.body.userId

C15_Witness ==
  /\ req.handler = "summary"
  /\ db.scopesByUser
  /\ req.body.sessionId = 2
  /\ Len(db.sessions) >= 2
  /\ Done
  /\ response = <<summaryCatch(Error(<<"Session not found">>))>>
  /\ log = <<Effect("getSession", [error |-> TRUE, isNull |-> TRUE])>>

(***************************************************************************)
(* C16.  The context never silently includes foreign data: if the sessions *)
(* or trades the handler was given hold a record whose owning user differs *)
(* from the requested userId, building the context fails, so no request to *)
(* the completion backend is built from, or lists, another user's session  *)
(* or trade.  Stated as: a handler that was given foreign data sends no    *)
(* request to the backend.                                                 *)
(***************************************************************************)
\* a session or trade the handler was given belongs to another user
GivenForeignData ==
  \/ \E k \in DOMAIN local.sessions.rows :
       local.sessions.rows[k].user_id # req.body.userId
  \/ \E k \in DOMAIN local.trades.rows : OwnerOf(local.trades.rows[k]) # req.body.userId
  \/ req.handler = "summary" /\ local.session.id # 0 /\
       local.session.user_id # req.body.userId

C16_NoForeignData == GivenForeignData => Count(log, "fetch") = 0

(***************************************************************************)
(* C17.  For every per-user collection of sessions and trades, the chat    *)
(* context lists at most 5 sessions and at most 10 trades, these being the *)
(* most recent ones by created_at descending, while the statistics of the  *)
(* same context (trade count, net P/L, winning and losing counts, win      *)
(* rate) are computed over the full untruncated trade set, so they do not  *)
(* change when more than 10 trades exist.  The collections are the rows of *)
(* the store that the user's queries select.                               *)
(***************************************************************************)
\* the rows of the store that the chat handler's queries select
SelectedSessions ==
  {i \in DOMAIN db.sessions : ScopedTo(req.body.userId, db.sessions[i].user_id)}

SelectedTrades ==
  {j \in DOMAIN db.trades : ScopedTo(req.body.userId, OwnerOf(db.trades[j]))}

RECURSIVE NetProfitLoss(_)
NetProfitLoss(S) ==
  IF S = {} THEN 0
  ELSE LET j == CHOOSE x \in S : TRUE
       IN  db.trades[j].profit_loss + NetProfitLoss(S \ {j})

\* listed holds the n most recent of the selected rows of table, latest first
MostRecent(listed, table, selected, n) ==
  /\ Len(listed) = (IF Cardinality(selected) < n THEN Cardinality(selected) ELSE n)
  /\ \A k \in 1..(Len(listed) - 1) : listed[k].created_at >= listed[k + 1].created_at
  /\ \A k, m \in DOMAIN listed : k # m => listed[k].id # listed[m].id
  /\ \A k \in DOMAIN listed :
       \E i \in selected : table[i].id = listed[k].id /\
                           table[i].created_at = listed[k].created_at
  /\ \A i \in selected :
       (\A k \in DOMAIN listed : listed[k].id # table[i].id) =>
         \A k \in DOMAIN listed : listed[k].created_at >= table[i].created_at

C17_TruncatedContext ==
  \A i \in Positions(log, "fetch") :
    req.handler = "chat" =>
      LET context == log[i].arg.system
          wins == {j \in SelectedTrades : db.trades[j].profit_loss > 0}
          losses == {j \in SelectedTrades : db.trades[j].profit_loss < 0}
      IN  /\ Len(context.recentSessions) <= 5
          /\ Len(context.recentTrades) <= 10
          /\ ~local.sessions.isNull =>
               MostRecent(context.recentSessions, db.sessions, SelectedSessions, 5)
          /\ ~local.trades.isNull =>
               /\ MostRecent(context.recentTrades, db.trades, SelectedTrades, 10)
               /\ context.totalTrades = Cardinality(SelectedTrades)
               /\ context.totalProfit = NetProfitLoss(SelectedTrades)
               /\ context.winningTrades = Cardinality(wins)
               /\ context.losingTrades = Cardinality(losses)
               /\ context.winRate.num * Cardinality(SelectedTrades) =
                    Cardinality(wins) * 100 * context.winRate.den

C17_Witness ==
  /\ req.handler = "chat"
  /\ db.scopesByUser
  /\ Cardinality(SelectedSessions) > 5
  /\ Cardinality(SelectedTrades) > 10
  /\ \E i \in Positions(log, "fetch") :
       /\ Len(log[i].arg.system.recentSessions) = 5
       /\ Len(log[i].arg.system.recentTrades) = 10
       /\ log[i].arg.system.totalTrades = Cardinality(SelectedTrades)

(***************************************************************************)
(* C18.  For every trade sequence, the empty one and a null answer of the  *)
(* store included, the statistics satisfy winningTrades + losingTrades <=  *)
(* totalTrades and 0 <= winRate <= 100; trades with profit_loss exactly 0  *)
(* are counted in totalTrades and in neither winningTrades nor             *)
(* losingTrades; with zero trades winRate and avgROI are exactly 0; and    *)
(* for the profit_loss values 100, -50, 0 the total is 3, the net 50, with *)
(* 1 winning and 1 losing trade and a win rate of a third of 100.          *)
(***************************************************************************)
C18_Statistics ==
  \A i \in Positions(log, "fetch") :
    LET stats == log[i].arg.system
        rows == local.trades.rows
        zeros == {k \in DOMAIN rows : rows[k].profit_loss = 0}
    IN  /\ stats.winningTrades + stats.losingTrades <= stats.totalTrades
        /\ stats.winRate.den > 0
        /\ 0 <= stats.winRate.num
        /\ stats.winRate.num <= 100 * stats.winRate.den
        /\ stats.totalTrades = Len(rows)
        /\ stats.totalTrades - stats.winningTrades - stats.losingTrades =
             Cardinality(zeros)
        /\ stats.totalTrades = 0 =>
             /\ stats.winRate.num = 0
             /\ stats.totalProfit = 0
             /\ req.handler = "summary" => stats.avgROI.num = 0
        /\ (Len(rows) = 3 /\ {rows[k].profit_loss : k \in DOMAIN rows} = {100, -50, 0}) =>
             /\ stats.totalTrades = 3
             /\ stats.totalProfit = 50
             /\ stats.winningTrades = 1
             /\ stats.losingTrades = 1
             /\ stats.winRate.num * 3 = 100 * stats.winRate.den

C18_Witness ==
  /\ req.handler = "summary"
  /\ req.body.sessionId = 1
  /\ \E i \in Positions(log, "fetch") :
       /\ log[i].arg.system.totalTrades = 3
       /\ log[i].arg.system.totalProfit = 50
       /\ log[i].arg.system.winningTrades = 1
       /\ log[i].arg.system.losingTrades = 1
       /\ [k \in 1..3 |-> log[i].arg.system.trades[k].profit_loss] = <<0, 100, -50>>

(***************************************************************************)
(* C19.  When the API credential is not configured, the failure the        *)
(* handlers return is generic: the response body for a missing credential  *)
(* does not tell which credential is missing and cannot be told apart from *)
(* the body returned for the other failure kinds.  Stated as: the body of  *)
(* a request that failed at the API key check is a body that some other    *)
(* failure of the same handler yields as well.                             *)
(***************************************************************************)
\* the request got as far as the API key check and failed there
FailedAtKeyCheck ==
  /\ Done
  /\ ~env.OPENAI_API_KEY
  /\ log # <<>>
  /\ log[Len(log)].e = "listTrades"
  /\ ~log[Len(log)].arg.error

\* the bodies the handler returns for its other failures
OtherFailureBodies ==
  LET others == {JsonSyntaxError, FetchTypeError, UndefinedTypeError,
                 Error(<<"Failed to fetch sessions">>),
                 Error(<<"Failed to fetch trades">>),
                 Error(<<"Session not found">>)} \cup
                {Error(<<"OpenAI API request failed: ", toString(st)>>) : st \in {429, 500}}
  IN  {(IF req.handler = "chat" THEN chatCatch(e) ELSE summaryCatch(e)).body : e \in others}

C19_GenericCredentialFailure ==
  FailedAtKeyCheck => response[1].body \in OtherFailureBodies

(***************************************************************************)
(* C20.  The token budget (max_tokens) the summary handler sends to the    *)
(* completion backend is strictly larger than the budget a chat turn       *)
(* sends.                                                                  *)
(***************************************************************************)
C20_SummaryBudgetLarger ==
  \A i \in Positions(log, "fetch") :
    /\ log[i].arg.handler = "summary" => log[i].arg.max_tokens > ChatMaxTokens
    /\ log[i].arg.handler = "chat" => log[i].arg.max_tokens < SummaryMaxTokens

(***************************************************************************)
(* C21.  Under any interleaving of handleSendMessage, clearChat and the    *)
(* settling of an outstanding sendChatMessage call, each assistant message *)
(* of the transcript is immediately preceded by the user message of the    *)
(* same turn: no transcript starts with an assistant message, none holds   *)
(* two assistant messages in a row, and the step on which a turn appends   *)
(* its assistant message leaves it right after a user message whose        *)
(* content is that turn's input.                                           *)
(***************************************************************************)
\* the turns that append an assistant message on this step
Replying ==
  {t \in 1..Len(turns') :
     Count(turns'[t].eff, "appendAssistant") >
       (IF t <= Len(turns) THEN Count(turns[t].eff, "appendAssistant") ELSE 0)}

C21_PrecededByUserState ==
  \A i \in DOMAIN messages :
    messages[i].role = "assistant" => i > 1 /\ messages[i - 1].role = "user"

C21_SameTurnStep ==
  \A t \in Replying :
    LET k == Len(messages')
    IN  /\ k >= 2
        /\ messages'[k].role = "assistant"
        /\ messages'[k - 1].role = "user"
        /\ messages'[k - 1].content = turns'[t].input

\* C21: every assistant message directly follows its turn's user message
C21_AssistantFollowsItsUserMessage ==
  []C21_PrecededByUserState /\ [][C21_SameTurnStep]_vars

(***************************************************************************)
(* C22.  In both handlers the completion backend is contacted only after   *)
(* every preceding step succeeded: whenever a request was sent to the      *)
(* backend, the request was not an OPTIONS request and its body was read,  *)
(* the data queries of the handler (sessions, then trades, for chat; the   *)
(* session lookup, then trades, for summary) were made before it and each  *)
(* returned without error, the looked-up session was found, and the API    *)
(* key was present.  An OPTIONS request never queries the store and never  *)
(* contacts the backend.                                                   *)
(***************************************************************************)
\* the store queries a handler makes before it contacts the backend
StepsBefore(handler) ==
  IF handler = "chat" THEN <<"listSessions", "listTrades">>
                      ELSE <<"getSession", "listTrades">>

\* the log up to its i-th entry holds exactly the queries steps, in order,
\* each answered without error, and the session looked up was found
Succeeded(i, steps) ==
  /\ i = Len(steps) + 1
  /\ \A k \in 1..Len(steps) :
       /\ log[k].e = steps[k]
       /\ ~log[k].arg.error
       /\ steps[k] = "getSession" => ~log[k].arg.isNull

C22_BackendAfterPriorSteps ==
  /\ \A i \in Positions(log, "fetch") :
       /\ req.method = "POST"
       /\ req.body.parsable
       /\ Succeeded(i, StepsBefore(req.handler))
       /\ env.OPENAI_API_KEY
  /\ req.handler # "none" /\ req.method = "OPTIONS" => log = <<>>

C22_Witness ==
  /\ req.handler = "summary"
  /\ pc = "backend"
  /\ Count(log, "fetch") = 1
  /\ Len(local.trades.rows) = TradesPerSession

====
